---- MODULE Spec2Model ----
(***************************************************************************)
(* A model of the Dashgram React binding: the DashgramProvider component   *)
(* (provider.tsx), the context value it hands to its consumers and the     *)
(* tracking hooks (hooks.ts), run by React's render / commit / passive     *)
(* effect cycle over the external DashgramMini client.  The client is      *)
(* modelled the way the repository's tests see it: a recorder of the calls *)
(* made on it, each of which may throw.                                    *)
(***************************************************************************)
EXTENDS Integers, Sequences, FiniteSets, TLC

\* ------------------------------------------------------------------ bounds

\* The count of DashgramMini.shutdown calls since the latest init is kept up
\* to MaxCount.
MaxCount == 2

\* The longest recorded sequence of events the consumer's hooks forwarded.
MaxForwarded == 3

\* ------------------------------------------------------------- JS values

\* An omitted prop: undefined for strings, booleans and functions, 0 for the
\* numeric props (whose real values are positive).
Undefined == "undefined"
NoNumber == 0

\* trackLevel = 2, the default of the provider's destructured parameter.
DefaultTrackLevel == 2

\* JavaScript truthiness of a string, boolean or undefined value.
Truthy(x) == x \notin {Undefined, "", "false"}

\* The level a host handler passes to setTrackLevel.
HostLevels == {3}

\* The props of the base usage <DashgramProvider projectId="p1">.
BaseProps ==
    [projectId |-> "p1", trackLevel |-> NoNumber, apiUrl |-> Undefined,
     batchSize |-> NoNumber, flushInterval |-> NoNumber, debug |-> Undefined,
     disabled |-> Undefined, onError |-> Undefined]

\* The props a parent may pass: the base usage, one change of each prop, and
\* usages without a project id.
PropsSet ==
    { BaseProps,
      [BaseProps EXCEPT !.projectId = "p2"],
      [BaseProps EXCEPT !.trackLevel = 3],
      [BaseProps EXCEPT !.apiUrl = "https://custom.api"],
      [BaseProps EXCEPT !.batchSize = 20],
      [BaseProps EXCEPT !.flushInterval = 10000],
      [BaseProps EXCEPT !.debug = "true"],
      [BaseProps EXCEPT !.disabled = "true"],
      [BaseProps EXCEPT !.onError = "onError1"],
      [BaseProps EXCEPT !.projectId = ""],
      [BaseProps EXCEPT !.projectId = "", !.debug = "true"],
      [BaseProps EXCEPT !.projectId = Undefined] }

\* The props of the runs that exercise the host's calls: the base usage, a
\* change of a dependency, of debug and of onError, and no project id.
CoreProps ==
    { BaseProps,
      [BaseProps EXCEPT !.apiUrl = "https://custom.api"],
      [BaseProps EXCEPT !.debug = "true"],
      [BaseProps EXCEPT !.onError = "onError1"],
      [BaseProps EXCEPT !.projectId = ""],
      [BaseProps EXCEPT !.projectId = "", !.debug = "true"] }

\* The props of the runs with a consumer component under the provider.
HookProps == {BaseProps, [BaseProps EXCEPT !.apiUrl = "https://custom.api"]}

\* The events a host handler tracks through the context.
HostEvents == {[name |-> "test_event", suffix |-> "", properties |-> Undefined]}

\* The hooks the consumer component may use, and the arguments it passes:
\* an event or component name and a properties object (its identity).
Hooks == {"useTrackMount", "useTrackUnmount", "useAutoTrack"}
HookArgs == [name : {"A", "B"}, properties : {Undefined, "props1"}]
NoArgs == [name |-> "none", properties |-> Undefined]

\* The hooks that track views, the arguments usePageView is rendered with (a
\* page name, which may be the empty string, and a properties object) and
\* the locations react-router's useLocation returns to useScreenTracking.
ViewHooks == {"usePageView", "useScreenTracking"}
PageArgs == [name : {"", "home", "about"}, properties : {Undefined, "props1"}]
Locations == [pathname : {"/", "/about"}, search : {"", "?q=1"}, hash : {""},
              state : {Undefined}]

\* The hooks that return a function the host calls to track an event.
ForwardHooks == {"useTrackClick", "useTrackSubmit", "useTrackEvent"}

\* The arguments a consumer using hook h is rendered with.
ArgsOf(h) ==
    CASE h = "none" -> {NoArgs}
      [] h = "useTrackEvent" -> {NoArgs}
      [] h = "usePageView" -> PageArgs
      [] h = "useScreenTracking" -> Locations
      [] OTHER -> HookArgs

\* The DashgramMini operations the binding calls.
SdkOps == {"init", "track", "flush", "setTrackLevel", "shutdown"}

\* Which of the operations ops of the mocked client throw during one step:
\* none, or one of them.
Faults(ops) == {{}} \cup {{op} : op \in ops}

\* ------------------------------------------------------------------ state

VARIABLES
    props,              \* the props of the provider's latest render
    phase,              \* "rendered" (first render done), "mounted", "unmounted"
    initRef,            \* initRef.current
    isInitialized,      \* the isInitialized state (with its pending updates)
    currentTrackLevel,  \* the currentTrackLevel state (with its pending updates)
    value,              \* the context value of the latest committed render
    destroy,            \* whether the effect's last run returned a cleanup function
    held,               \* a context value the host kept from an earlier render, or NoValue
    flush,              \* the promises of the latest context flush() call
    cHook,              \* the hook the consumer component uses, or "none"
    cPhase,             \* the consumer: "absent", "rendered", "mounted", "unmounted"
    cArgs,              \* the arguments of the hook in the consumer's latest render
    hasTracked,         \* hasTracked.current / hasTrackedMount.current of the hook
    previousPage,       \* previousPage.current of usePageView
    previousPath,       \* previousPath.current of useScreenTracking
    useLocation,        \* whether the module found react-router-dom's useLocation
    forwarded,          \* the events the consumer's hooks had DashgramMini.track called with
    sdk,                \* what the mocked DashgramMini has seen so far (SdkAfter)
    step,               \* the calls made on DashgramMini by the latest step, in order
    warns,              \* console.warn calls of the latest step
    escaped,            \* whether an exception ever left the binding
    last,               \* the latest step
    other               \* a second DashgramProvider over the same DashgramMini

vars == <<props, phase, initRef, isInitialized, currentTrackLevel, value,
          destroy, held, flush, cHook, cPhase, cArgs, hasTracked, previousPage,
          previousPath, useLocation, forwarded, sdk, step, warns, escaped, last,
          other>>

\* What the functions of a context value close over.
Closure(v) == [isInitialized |-> v.isInitialized, debug |-> v.debug]

NoValue == [isInitialized |-> FALSE, debug |-> "none"]

\* No second provider: its phase, initRef.current, isInitialized state, the
\* cleanup its effect returned and the isInitialized of its context value.
NoOther ==
    [phase |-> "absent", initRef |-> FALSE, isInitialized |-> FALSE,
     destroy |-> FALSE, value |-> FALSE]

\* No context flush() call was made yet.
NoFlush == [ctx |-> "none", sdk |-> "none", debug |-> "none"]

\* ------------------------------------------------------- the mocked client

\* No configuration: DashgramMini.init was never called.
NoConfig ==
    [projectId |-> "none", trackLevel |-> NoNumber, apiUrl |-> "none",
     batchSize |-> NoNumber, flushInterval |-> NoNumber, debug |-> "none",
     disabled |-> "none", onError |-> "none"]

\* The mocked client before any call.
SdkFresh ==
    [ready |-> FALSE, lastOp |-> "none", initOk |-> FALSE, shutdownThrew |-> FALSE,
     config |-> NoConfig, level |-> NoNumber, shutdowns |-> 0]

\* What the mocked client has seen after one more call: whether its latest
\* successful lifecycle call is init (ready), the latest lifecycle call,
\* whether an init ever succeeded, whether a shutdown ever threw, the config
\* of the latest init, the level last given to it, and the shutdown calls
\* since the latest init.
SdkAfter(m, op, arg, threw) ==
    CASE op = "init" ->
            [m EXCEPT !.ready = IF threw THEN @ ELSE TRUE, !.lastOp = "init",
                      !.initOk = @ \/ ~threw, !.config = arg,
                      !.level = arg.trackLevel, !.shutdowns = 0]
      [] op = "shutdown" ->
            [m EXCEPT !.ready = IF threw THEN @ ELSE FALSE, !.lastOp = "shutdown",
                      !.shutdownThrew = @ \/ threw,
                      !.shutdowns = IF @ < MaxCount THEN @ + 1 ELSE @]
      [] op = "setTrackLevel" ->
            [m EXCEPT !.level = IF threw THEN @ ELSE arg]
      [] OTHER -> m

\* One call on the mocked client, recorded with its outcome; when it throws,
\* the exception is in flight (thrown) until a catch takes it.
SdkCall(s, op, arg, F) ==
    [s EXCEPT !.step = Append(@, [op |-> op, arg |-> arg, threw |-> op \in F]),
              !.sdk = SdkAfter(@, op, arg, op \in F),
              !.thrown = op \in F]

\* A catch block is entered: the exception is no longer in flight.
Caught(s) == [s EXCEPT !.thrown = FALSE]

\* ------------------------------------------------------- the provider's code

\* trackLevel = 2 in the parameter list: the prop, or the default.
TrackLevelOf(p) == IF p.trackLevel = NoNumber THEN DefaultTrackLevel ELSE p.trackLevel

\* InitConfig passing the trackLevel prop as given, without the default.
InitConfigRawLevel(p) ==
    [projectId |-> p.projectId, trackLevel |-> p.trackLevel, apiUrl |-> p.apiUrl,
     batchSize |-> p.batchSize, flushInterval |-> p.flushInterval, debug |-> p.debug,
     disabled |-> p.disabled, onError |-> p.onError]

\* The object literal passed to DashgramMini.init.
InitConfig(p) ==
    [projectId |-> p.projectId, trackLevel |-> TrackLevelOf(p), apiUrl |-> p.apiUrl,
     batchSize |-> p.batchSize, flushInterval |-> p.flushInterval, debug |-> p.debug,
     disabled |-> p.disabled, onError |-> p.onError]

\* EffectDeps without debug.
EffectDepsNoDebug(p) ==
    <<p.projectId, TrackLevelOf(p), p.apiUrl, p.batchSize, p.flushInterval, p.disabled>>

\* EffectDeps with onError.
EffectDepsWithOnError(p) ==
    <<p.projectId, TrackLevelOf(p), p.apiUrl, p.batchSize, p.flushInterval, p.debug,
      p.disabled, p.onError>>

\* The effect's dependency list (onError is not in it).
EffectDeps(p) ==
    <<p.projectId, TrackLevelOf(p), p.apiUrl, p.batchSize, p.flushInterval, p.debug,
      p.disabled>>

\* ProviderEffect without the check of projectId.
ProviderEffectNoProjectCheck(s, p, F) ==
    IF s.initRef THEN [s EXCEPT !.destroy = FALSE]
    ELSE LET s1 == SdkCall([s EXCEPT !.initRef = TRUE], "init", InitConfig(p), F)
         IN  IF s1.thrown
             THEN [Caught(s1) EXCEPT !.isInitialized = FALSE, !.initRef = FALSE,
                                     !.destroy = TRUE]
             ELSE [s1 EXCEPT !.isInitialized = TRUE, !.destroy = TRUE]

\* ProviderEffect whose catch block leaves initRef set.
ProviderEffectKeepsRefOnError(s, p, F) ==
    IF s.initRef THEN [s EXCEPT !.destroy = FALSE]
    ELSE IF ~Truthy(p.projectId) THEN [s EXCEPT !.destroy = FALSE]
    ELSE LET s1 == SdkCall([s EXCEPT !.initRef = TRUE], "init", InitConfig(p), F)
         IN  IF s1.thrown
             THEN [Caught(s1) EXCEPT !.isInitialized = FALSE, !.destroy = TRUE]
             ELSE [s1 EXCEPT !.isInitialized = TRUE, !.destroy = TRUE]

\* The body of the provider's effect, run with the props p of its render.
ProviderEffect(s, p, F) ==
    IF s.initRef THEN [s EXCEPT !.destroy = FALSE]
    ELSE IF ~Truthy(p.projectId) THEN [s EXCEPT !.destroy = FALSE]
    ELSE LET s1 == SdkCall([s EXCEPT !.initRef = TRUE], "init", InitConfig(p), F)
         IN  IF s1.thrown
             THEN [Caught(s1) EXCEPT !.isInitialized = FALSE, !.initRef = FALSE,
                                     !.destroy = TRUE]
             ELSE [s1 EXCEPT !.isInitialized = TRUE, !.destroy = TRUE]

\* ProviderCleanup that forgets to shut the client down.
ProviderCleanupNoShutdown(s, F) ==
    IF s.initRef THEN [s EXCEPT !.initRef = FALSE, !.isInitialized = FALSE] ELSE s

\* ProviderCleanup that shuts the client down and leaves initRef set.
ProviderCleanupNoReset(s, F) ==
    IF s.initRef
    THEN [Caught(SdkCall(s, "shutdown", Undefined, F)) EXCEPT !.isInitialized = FALSE]
    ELSE s

\* The cleanup function the effect returns.
ProviderCleanup(s, F) ==
    IF s.initRef
    THEN [Caught(SdkCall(s, "shutdown", Undefined, F)) EXCEPT !.initRef = FALSE,
                                                              !.isInitialized = FALSE]
    ELSE s

\* React runs the stored cleanup, when the effect's last run returned one.
RunDestroy(s, F) == IF s.destroy THEN ProviderCleanup(s, F) ELSE s

\* value.track that warns of a dropped event whatever debug is.
ValueTrackAlwaysWarns(s, v, ev, F) ==
    IF ~v.isInitialized
    THEN [s EXCEPT !.warns = @ + 1]
    ELSE LET s1 == SdkCall(s, "track", ev, F)
         IN  IF s1.thrown
             THEN [Caught(s1) EXCEPT !.warns = IF Truthy(v.debug) THEN @ + 1 ELSE @,
                                     !.isInitialized = FALSE]
             ELSE s1

\* value.track without its try/catch: an exception of DashgramMini.track
\* leaves the function.
ValueTrackNoCatch(s, v, ev, F) ==
    IF ~v.isInitialized
    THEN IF Truthy(v.debug) THEN [s EXCEPT !.warns = @ + 1] ELSE s
    ELSE SdkCall(s, "track", ev, F)

\* value.track whose catch block leaves isInitialized as it was.
ValueTrackKeepsState(s, v, ev, F) ==
    IF ~v.isInitialized
    THEN IF Truthy(v.debug) THEN [s EXCEPT !.warns = @ + 1] ELSE s
    ELSE LET s1 == SdkCall(s, "track", ev, F)
         IN  IF s1.thrown
             THEN [Caught(s1) EXCEPT !.warns = IF Truthy(v.debug) THEN @ + 1 ELSE @]
             ELSE s1

\* value.track, closed over the isInitialized and debug of the render of v.
ValueTrack(s, v, ev, F) ==
    IF ~v.isInitialized
    THEN IF Truthy(v.debug) THEN [s EXCEPT !.warns = @ + 1] ELSE s
    ELSE LET s1 == SdkCall(s, "track", ev, F)
         IN  IF s1.thrown
             THEN [Caught(s1) EXCEPT !.warns = IF Truthy(v.debug) THEN @ + 1 ELSE @,
                                     !.isInitialized = FALSE]
             ELSE s1

\* value.setTrackLevel without its check of isInitialized.
ValueSetTrackLevelUnguarded(s, v, level, F) ==
    LET s1 == SdkCall(s, "setTrackLevel", level, F)
    IN  IF s1.thrown
        THEN [Caught(s1) EXCEPT !.warns = IF Truthy(v.debug) THEN @ + 1 ELSE @]
        ELSE [s1 EXCEPT !.currentTrackLevel = level]

\* value.setTrackLevel
ValueSetTrackLevel(s, v, level, F) ==
    IF v.isInitialized
    THEN LET s1 == SdkCall(s, "setTrackLevel", level, F)
         IN  IF s1.thrown
             THEN [Caught(s1) EXCEPT !.warns = IF Truthy(v.debug) THEN @ + 1 ELSE @]
             ELSE [s1 EXCEPT !.currentTrackLevel = level]
    ELSE s

\* value.getTrackLevel of the context value val: the currentTrackLevel of its
\* render.
ValueGetTrackLevel(val) == val.level

\* value.shutdown that leaves the provider's state as it was.
ValueShutdownKeepsState(s, v, F) ==
    IF v.isInitialized
    THEN LET s1 == SdkCall(s, "shutdown", Undefined, F)
         IN  IF s1.thrown
             THEN [Caught(s1) EXCEPT !.warns = IF Truthy(v.debug) THEN @ + 1 ELSE @]
             ELSE s1
    ELSE s

\* value.shutdown that does not reset initRef.current.
ValueShutdownKeepsRef(s, v, F) ==
    IF v.isInitialized
    THEN LET s1 == SdkCall(s, "shutdown", Undefined, F)
         IN  IF s1.thrown
             THEN [Caught(s1) EXCEPT !.warns = IF Truthy(v.debug) THEN @ + 1 ELSE @]
             ELSE [s1 EXCEPT !.isInitialized = FALSE]
    ELSE s

\* value.shutdown
ValueShutdown(s, v, F) ==
    IF v.isInitialized
    THEN LET s1 == SdkCall(s, "shutdown", Undefined, F)
         IN  IF s1.thrown
             THEN [Caught(s1) EXCEPT !.warns = IF Truthy(v.debug) THEN @ + 1 ELSE @]
             ELSE [s1 EXCEPT !.isInitialized = FALSE, !.initRef = FALSE]
    ELSE s

\* value.flush that does not await the promise of DashgramMini.flush().
ValueFlushNoAwait(s, v, F) ==
    IF v.isInitialized
    THEN LET s1 == SdkCall(s, "flush", Undefined, F)
         IN  IF s1.thrown
             THEN [Caught(s1) EXCEPT !.warns = IF Truthy(v.debug) THEN @ + 1 ELSE @,
                                     !.flush = [ctx |-> "resolved", sdk |-> "none",
                                                debug |-> v.debug]]
             ELSE [s1 EXCEPT !.flush = [ctx |-> "resolved", sdk |-> "pending",
                                        debug |-> v.debug]]
    ELSE [s EXCEPT !.flush = [ctx |-> "resolved", sdk |-> "none", debug |-> v.debug]]

\* value.flush up to its await: the promise it returns (ctx) and the one
\* DashgramMini.flush() returned (sdk).  A synchronous throw of
\* DashgramMini.flush is caught like a rejection.
ValueFlush(s, v, F) ==
    IF v.isInitialized
    THEN LET s1 == SdkCall(s, "flush", Undefined, F)
         IN  IF s1.thrown
             THEN [Caught(s1) EXCEPT !.warns = IF Truthy(v.debug) THEN @ + 1 ELSE @,
                                     !.flush = [ctx |-> "resolved", sdk |-> "none",
                                                debug |-> v.debug]]
             ELSE [s1 EXCEPT !.flush = [ctx |-> "pending", sdk |-> "pending",
                                        debug |-> v.debug]]
    ELSE [s EXCEPT !.flush = [ctx |-> "resolved", sdk |-> "none", debug |-> v.debug]]

\* value.flush after its await, once DashgramMini's promise settled with
\* outcome: the await throws a rejection, which is caught.
ValueFlushResume(s, outcome) ==
    LET s1 == [s EXCEPT !.flush.sdk = outcome, !.thrown = outcome = "rejected"]
    IN  IF s1.thrown
        THEN [Caught(s1) EXCEPT !.warns = IF Truthy(s.flush.debug) THEN @ + 1 ELSE @,
                                !.flush.ctx = "resolved"]
        ELSE [s1 EXCEPT !.flush.ctx = "resolved"]

\* The context value object a render builds.
RenderValue(s, p) ==
    [isInitialized |-> s.isInitialized, debug |-> p.debug,
     level |-> s.currentTrackLevel]

\* -------------------------------------------------------- the hooks' code

Event(a, suffix) == [name |-> a.name, suffix |-> suffix, properties |-> a.properties]

\* track(event, properties) inside a hook: the track of the context value v
\* the hook's render read.
HookTrack(s, v, ev, F) ==
    LET s1 == ValueTrack(s, v, ev, F)
    IN  IF Len(s1.step) > Len(s.step)
        THEN [s1 EXCEPT !.forwarded = Append(@, [name |-> ev.name, suffix |-> ev.suffix])]
        ELSE s1

\* The effect of useTrackMount without its hasTracked guard.
UseTrackMountEffectNoRef(s, v, a, F) ==
    IF v.isInitialized
    THEN [HookTrack(s, v, Event(a, ""), F) EXCEPT !.hasTracked = TRUE]
    ELSE s

\* The effect of useTrackMount.
UseTrackMountEffect(s, v, a, F) ==
    IF v.isInitialized /\ ~s.hasTracked
    THEN [HookTrack(s, v, Event(a, ""), F) EXCEPT !.hasTracked = TRUE]
    ELSE s

\* The cleanup the effect of useTrackUnmount returns.
UseTrackUnmountCleanup(s, v, a, F) ==
    IF v.isInitialized THEN HookTrack(s, v, Event(a, ""), F) ELSE s

\* The first effect of useAutoTrack.
UseAutoTrackMountEffect(s, v, a, F) ==
    IF v.isInitialized /\ ~s.hasTracked
    THEN [HookTrack(s, v, Event(a, "_mounted"), F) EXCEPT !.hasTracked = TRUE]
    ELSE s

\* The cleanup the second effect of useAutoTrack returns.
UseAutoTrackUnmountCleanup(s, v, a, F) ==
    IF v.isInitialized THEN HookTrack(s, v, Event(a, "_unmounted"), F) ELSE s

\* The properties objects a page is rendered with, by identity: none, one
\* without a page key and one with its own page key.
PropertiesOf(id) ==
    CASE id = "props1" -> ("section" :> "landing")
      [] id = "propsPage" -> ("page" :> "other")
      [] OTHER -> [k \in {} |-> ""]

\* The object literal { page: pageName, ...properties }: the spread comes
\* after the page key, so a key of properties replaces the one before it.
PageViewPayload(a) == PropertiesOf(a.properties) @@ ("page" :> a.name)

\* The event usePageView tracks: "page_view" with that object, as its page
\* field and the properties object spread into it.
PageView(a) ==
    [name |-> "page_view", suffix |-> "",
     properties |-> [page |-> PageViewPayload(a)["page"], rest |-> a.properties]]

\* The effect of usePageView.
UsePageViewEffect(s, v, a, F) ==
    IF ~v.isInitialized THEN s
    ELSE IF a.name = s.previousPage THEN s
    ELSE HookTrack([s EXCEPT !.previousPage = a.name], v, PageView(a), F)

\* The event useScreenTracking tracks for the location loc.
ScreenView(loc) ==
    [name |-> "screen_view", suffix |-> "",
     properties |-> [path |-> loc.pathname, search |-> loc.search,
                     hash |-> loc.hash, state |-> loc.state]]

\* The effect of useScreenTracking without its comparison of the pathname.
UseScreenTrackingEffectEveryLocation(s, v, loc, F) ==
    IF ~useLocation THEN s
    ELSE IF ~v.isInitialized THEN s
    ELSE HookTrack([s EXCEPT !.previousPath = loc.pathname], v, ScreenView(loc), F)

\* The effect of useScreenTracking; the hook returns before its useEffect
\* when the module found no useLocation.
UseScreenTrackingEffect(s, v, loc, F) ==
    IF ~useLocation THEN s
    ELSE IF ~v.isInitialized THEN s
    ELSE IF loc.pathname = s.previousPath THEN s
    ELSE HookTrack([s EXCEPT !.previousPath = loc.pathname], v, ScreenView(loc), F)

\* The handler useTrackClick returns, forgetting the properties.
UseTrackClickHandlerNoProperties(s, v, a, F) ==
    HookTrack(s, v, [Event(a, "") EXCEPT !.properties = Undefined], F)

\* The handler useTrackClick returns, from a render that read v and had
\* arguments a.
UseTrackClickHandler(s, v, a, F) == HookTrack(s, v, Event(a, ""), F)

\* The handler useTrackSubmit returns.
UseTrackSubmitHandler(s, v, a, F) == HookTrack(s, v, Event(a, ""), F)

\* The function of useTrackEvent deciding by the provider's isInitialized at
\* the time of the call.
UseTrackEventFunctionLive(s, v, a, F) ==
    IF s.isInitialized THEN HookTrack(s, v, Event(a, ""), F) ELSE s

\* The function useTrackEvent returns, called with the event and properties
\* of a.
UseTrackEventFunction(s, v, a, F) ==
    IF v.isInitialized THEN HookTrack(s, v, Event(a, ""), F) ELSE s

\* The effects of the consumer's hook, from a render that read v and had
\* arguments a.
HookEffects(s, v, a, F) ==
    CASE cHook = "useTrackMount" -> UseTrackMountEffect(s, v, a, F)
      [] cHook = "useAutoTrack" -> UseAutoTrackMountEffect(s, v, a, F)
      [] cHook = "usePageView" -> UsePageViewEffect(s, v, a, F)
      [] cHook = "useScreenTracking" -> UseScreenTrackingEffect(s, v, a, F)
      [] OTHER -> s

\* The cleanups of the consumer's hook, returned by the effects of a render
\* that read v and had arguments a.
HookCleanups(s, v, a, F) ==
    CASE cHook = "useTrackUnmount" -> UseTrackUnmountCleanup(s, v, a, F)
      [] cHook = "useAutoTrack" -> UseAutoTrackUnmountCleanup(s, v, a, F)
      [] OTHER -> s

\* ------------------------------------------------------------ React's cycle

\* The mutable state the code above reads and writes.
Heap ==
    [initRef |-> initRef, isInitialized |-> isInitialized,
     currentTrackLevel |-> currentTrackLevel, destroy |-> destroy, flush |-> flush,
     hasTracked |-> hasTracked, previousPage |-> previousPage,
     previousPath |-> previousPath, forwarded |-> forwarded,
     sdk |-> sdk, step |-> <<>>, warns |-> 0, thrown |-> FALSE]

\* The state after a step that ran the code to s: an exception still in
\* flight has left the binding, and rejects the promise of an async function.
Store(s, name) ==
    /\ Len(s.forwarded) <= MaxForwarded
    /\ initRef' = s.initRef
    /\ isInitialized' = s.isInitialized
    /\ currentTrackLevel' = s.currentTrackLevel
    /\ destroy' = s.destroy
    /\ flush' = IF s.thrown /\ name \in {"flush", "resumeFlush"}
                THEN [s.flush EXCEPT !.ctx = "rejected"]
                ELSE s.flush
    /\ hasTracked' = s.hasTracked
    /\ previousPage' = s.previousPage
    /\ previousPath' = s.previousPath
    /\ useLocation' = useLocation
    /\ forwarded' = s.forwarded
    /\ sdk' = s.sdk
    /\ step' = s.step
    /\ warns' = s.warns
    /\ escaped' = (escaped \/ (s.thrown /\ name \notin {"flush", "resumeFlush"}))
    /\ last' = name
    /\ other' = other

\* A state update is pending when the state differs from the committed render.
Pending == isInitialized # value.isInitialized \/ currentTrackLevel # value.level

\* Every render of the provider builds a new value object with new functions,
\* so the dependency lists of the consumer's effects, which hold track, change
\* with it; a render of the consumer alone changes them with its arguments.
HookDepsChanged(providerRendered, a) == providerRendered \/ a # cArgs

\* The passive effects of a commit in which the provider rendered with props
\* p and the consumer with arguments a: first the cleanups of the effects
\* whose dependencies changed, the consumer's before the provider's, then
\* the effects, in the same order.
Commit(s, p, a, F) ==
    LET old == Closure(value)
        new == Closure(RenderValue(s, p))
        c == cPhase = "mounted"
        changed == EffectDeps(p) # EffectDeps(props)
        s1 == IF c /\ HookDepsChanged(TRUE, a) THEN HookCleanups(s, old, cArgs, F) ELSE s
        s2 == IF changed THEN RunDestroy(s1, F) ELSE s1
        s3 == IF c /\ HookDepsChanged(TRUE, a) THEN HookEffects(s2, new, a, F) ELSE s2
    IN  IF changed THEN ProviderEffect(s3, p, F) ELSE s3

\* The effects of the mount, the consumer's before the provider's; under
\* StrictMode React then runs the cleanups and the effects again.
MountEffects(s, strict, F) ==
    LET v == Closure(value)
        c == cPhase = "rendered"
        s1 == IF c THEN HookEffects(s, v, cArgs, F) ELSE s
        s2 == ProviderEffect(s1, props, F)
        s3 == IF c THEN HookCleanups(s2, v, cArgs, F) ELSE s2
        s4 == RunDestroy(s3, F)
        s5 == IF c THEN HookEffects(s4, v, cArgs, F) ELSE s4
    IN  IF strict THEN ProviderEffect(s5, props, F) ELSE s2

\* The cleanups of an unmount of the provider with its consumer, in either
\* order.
UnmountEffects(s, providerFirst, F) ==
    LET v == Closure(value)
        c == cPhase = "mounted"
    IN  IF providerFirst
        THEN LET s1 == RunDestroy(s, F)
             IN  IF c THEN HookCleanups(s1, v, cArgs, F) ELSE s1
        ELSE RunDestroy(IF c THEN HookCleanups(s, v, cArgs, F) ELSE s, F)

InitWith(P, H, C) ==
    /\ props \in P
    /\ phase = "rendered"
    /\ initRef = FALSE
    /\ isInitialized = FALSE
    /\ currentTrackLevel = TrackLevelOf(props)
    /\ value = [isInitialized |-> FALSE, debug |-> props.debug,
                level |-> TrackLevelOf(props)]
    /\ destroy = FALSE
    /\ held = NoValue
    /\ flush = NoFlush
    /\ cHook \in H
    /\ cPhase \in C
    /\ cArgs \in ArgsOf(cHook)
    /\ hasTracked = FALSE
    /\ previousPage = ""
    /\ previousPath = ""
    /\ useLocation \in IF cHook = "useScreenTracking" THEN BOOLEAN ELSE {TRUE}
    /\ forwarded = <<>>
    /\ sdk = SdkFresh
    /\ step = <<>>
    /\ warns = 0
    /\ escaped = FALSE
    /\ last = "render"
    /\ other = NoOther

Mount(strict, F) ==
    /\ phase = "rendered"
    /\ Store(MountEffects(Heap, strict, F), IF strict THEN "mountStrict" ELSE "mount")
    /\ phase' = "mounted"
    /\ cPhase' = IF cPhase = "rendered" THEN "mounted" ELSE cPhase
    /\ UNCHANGED <<props, value, held, cHook, cArgs>>

\* React re-renders the provider for its pending state updates; the consumer
\* renders with it, with arguments a.
Rerender(a, F) ==
    /\ phase = "mounted"
    /\ Pending
    /\ value' = RenderValue(Heap, props)
    /\ cArgs' = a
    /\ Store(Commit(Heap, props, a, F), "rerender")
    /\ UNCHANGED <<props, phase, held, cHook, cPhase>>

\* The parent re-renders the provider with props p, and the consumer with
\* arguments a.
SetProps(p, a, F) ==
    /\ phase = "mounted"
    /\ props' = p
    /\ value' = RenderValue(Heap, p)
    /\ cArgs' = a
    /\ Store(Commit(Heap, p, a, F), "setProps")
    /\ UNCHANGED <<phase, held, cHook, cPhase>>

\* The provider unmounts, and the consumer with it.
Unmount(providerFirst, F) ==
    /\ phase = "mounted"
    /\ phase' = "unmounted"
    /\ cPhase' = IF cPhase = "mounted" THEN "unmounted" ELSE cPhase
    /\ Store(UnmountEffects(Heap, providerFirst, F), "unmount")
    /\ UNCHANGED <<props, value, held, cHook, cArgs>>

\* The consumer mounts under the mounted provider.
ChildMount(a, F) ==
    /\ phase = "mounted" /\ ~Pending
    /\ cHook # "none" /\ cPhase = "absent"
    /\ cPhase' = "mounted"
    /\ cArgs' = a
    /\ Store(HookEffects(Heap, Closure(value), a, F), "childMount")
    /\ UNCHANGED <<props, phase, value, held, cHook>>

\* The consumer re-renders alone, with arguments a.
ChildRerender(a, F) ==
    /\ phase = "mounted" /\ ~Pending
    /\ cPhase = "mounted"
    /\ cArgs' = a
    /\ Store(IF HookDepsChanged(FALSE, a)
             THEN HookEffects(HookCleanups(Heap, Closure(value), cArgs, F),
                              Closure(value), a, F)
             ELSE Heap, "childRerender")
    /\ UNCHANGED <<props, phase, value, held, cHook, cPhase>>

\* The consumer unmounts, the provider staying mounted.
ChildUnmount(F) ==
    /\ phase = "mounted" /\ ~Pending
    /\ cPhase = "mounted"
    /\ cPhase' = "unmounted"
    /\ Store(HookCleanups(Heap, Closure(value), cArgs, F), "childUnmount")
    /\ UNCHANGED <<props, phase, value, held, cHook, cArgs>>

\* The host clicks the element that has the handler of the consumer's latest
\* render.
Click(F) ==
    /\ cHook = "useTrackClick" /\ cPhase = "mounted"
    /\ Store(UseTrackClickHandler(Heap, Closure(value), cArgs, F), "click")
    /\ UNCHANGED <<props, phase, value, held, cHook, cPhase, cArgs>>

\* The host submits the form that has the handler of the consumer's latest
\* render.
Submit(F) ==
    /\ cHook = "useTrackSubmit" /\ cPhase = "mounted"
    /\ Store(UseTrackSubmitHandler(Heap, Closure(value), cArgs, F), "submit")
    /\ UNCHANGED <<props, phase, value, held, cHook, cPhase, cArgs>>

\* The consumer calls the function of its latest render with the event and
\* properties of a.
TrackEvent(a, F) ==
    /\ cHook = "useTrackEvent" /\ cPhase = "mounted"
    /\ Store(UseTrackEventFunction(Heap, Closure(value), a, F), "trackEvent")
    /\ UNCHANGED <<props, phase, value, held, cHook, cPhase, cArgs>>

\* The context values a host handler can call through: the one of the latest
\* render while the provider is mounted, and the one it kept.
Callable == (IF phase = "mounted" THEN {Closure(value)} ELSE {}) \cup ({held} \ {NoValue})
Current == IF phase = "mounted" THEN {Closure(value)} ELSE {}

\* The host keeps the context value of the latest render.
Hold ==
    /\ phase = "mounted"
    /\ held # Closure(value)
    /\ held' = Closure(value)
    /\ Store(Heap, "hold")
    /\ UNCHANGED <<props, phase, value, cHook, cPhase, cArgs>>

\* The host calls the function useTrackEvent returned in the render it kept.
HeldTrackEvent(a, F) ==
    /\ cHook = "useTrackEvent" /\ cPhase = "mounted"
    /\ held # NoValue
    /\ Store(UseTrackEventFunction(Heap, held, a, F), "heldTrackEvent")
    /\ UNCHANGED <<props, phase, value, held, cHook, cPhase, cArgs>>

CallTrack(v, ev, F) ==
    /\ Store(ValueTrack(Heap, v, ev, F), "track")
    /\ UNCHANGED <<props, phase, value, held, cHook, cPhase, cArgs>>

CallSetTrackLevel(v, level, F) ==
    /\ Store(ValueSetTrackLevel(Heap, v, level, F), "setTrackLevel")
    /\ UNCHANGED <<props, phase, value, held, cHook, cPhase, cArgs>>

CallShutdown(v, F) ==
    /\ Store(ValueShutdown(Heap, v, F), "shutdown")
    /\ UNCHANGED <<props, phase, value, held, cHook, cPhase, cArgs>>

CallFlush(v, F) ==
    /\ flush.ctx # "pending"
    /\ Store(ValueFlush(Heap, v, F), "flush")
    /\ UNCHANGED <<props, phase, value, held, cHook, cPhase, cArgs>>

\* The promise DashgramMini.flush() returned settles.
SettleFlush(outcome) ==
    /\ flush.sdk = "pending"
    /\ Store([Heap EXCEPT !.flush.sdk = outcome], "settleFlush")
    /\ UNCHANGED <<props, phase, value, held, cHook, cPhase, cArgs>>

\* The job queue resumes the value.flush that awaits the settled promise.
ResumeFlush ==
    /\ flush.ctx = "pending"
    /\ flush.sdk \in {"resolved", "rejected"}
    /\ Store(ValueFlushResume(Heap, flush.sdk), "resumeFlush")
    /\ UNCHANGED <<props, phase, value, held, cHook, cPhase, cArgs>>

\* The second provider, rendered with the same props: the heap its code
\* runs on shares DashgramMini with the first and has its own ref and state.
OtherHeap ==
    [Heap EXCEPT !.initRef = other.initRef, !.isInitialized = other.isInitialized,
                 !.destroy = other.destroy]

\* The functions of the second provider's context value close over this.
OtherValue == [isInitialized |-> other.value, debug |-> props.debug]

\* The state after a step of the second provider that ran its code to s.
StoreOther(s, ph, val, name) ==
    /\ other' = [phase |-> ph, initRef |-> s.initRef,
                 isInitialized |-> s.isInitialized, destroy |-> s.destroy,
                 value |-> val]
    /\ sdk' = s.sdk
    /\ step' = s.step
    /\ warns' = s.warns
    /\ escaped' = (escaped \/ s.thrown)
    /\ last' = name
    /\ UNCHANGED <<props, phase, initRef, isInitialized, currentTrackLevel, value,
                   destroy, held, flush, cHook, cPhase, cArgs, hasTracked,
                   previousPage, previousPath, useLocation, forwarded>>

\* The second provider is rendered and its effect runs.
OtherMount(F) ==
    /\ other.phase = "absent"
    /\ StoreOther(ProviderEffect(OtherHeap, props, F), "mounted", FALSE, "otherMount")

\* The second provider re-renders after a state update.
OtherRerender ==
    /\ other.phase = "mounted"
    /\ other.isInitialized # other.value
    /\ StoreOther(OtherHeap, "mounted", other.isInitialized, "otherRerender")

\* The second provider unmounts.
OtherUnmount(F) ==
    /\ other.phase = "mounted"
    /\ StoreOther(RunDestroy(OtherHeap, F), "unmounted", other.value, "otherUnmount")

\* A consumer of the second provider calls its context shutdown().
OtherShutdown(F) ==
    /\ other.phase = "mounted"
    /\ StoreOther(ValueShutdown(OtherHeap, OtherValue, F), "mounted", other.value,
                  "otherShutdown")

\* ------------------------------------------- the older provider (part_003)

\* The props the older provider is rendered with: the base usage, a changed
\* dependency, an onError function of stable identity and one written inline,
\* which is a new function in every render.
OldProps ==
    { BaseProps,
      [BaseProps EXCEPT !.apiUrl = "https://custom.api"],
      [BaseProps EXCEPT !.onError = "onError1"],
      [BaseProps EXCEPT !.onError = "inline"] }

\* The dependency list of the older provider's effect (onError is in it).
OldEffectDeps(p) ==
    <<p.projectId, TrackLevelOf(p), p.apiUrl, p.batchSize, p.flushInterval, p.debug,
      p.disabled, p.onError>>

\* Whether a render with props p after one with props q re-runs the effect.
OldDepsChanged(p, q) == OldEffectDeps(p) # OldEffectDeps(q) \/ p.onError = "inline"

\* The older effect: no project id check, the catch block only logs, and the
\* cleanup is returned also after a throwing init; the early return returns
\* none.
OldProviderEffect(s, p, F) ==
    IF s.initRef THEN [s EXCEPT !.destroy = FALSE]
    ELSE LET s1 == SdkCall([s EXCEPT !.initRef = TRUE], "init", InitConfig(p), F)
         IN  IF s1.thrown
             THEN [Caught(s1) EXCEPT !.destroy = TRUE]
             ELSE [s1 EXCEPT !.isInitialized = TRUE, !.destroy = TRUE]

\* The older cleanup: DashgramMini.shutdown() and nothing else.
OldProviderCleanup(s, F) == SdkCall(s, "shutdown", Undefined, F)

OldRunDestroy(s, F) == IF s.destroy THEN OldProviderCleanup(s, F) ELSE s

\* The older value.track, value.setTrackLevel and value.shutdown: no try.
OldValueTrack(s, v, ev, F) ==
    IF v.isInitialized THEN SdkCall(s, "track", ev, F) ELSE s

OldValueSetTrackLevel(s, v, level, F) ==
    IF v.isInitialized
    THEN LET s1 == SdkCall(s, "setTrackLevel", level, F)
         IN  IF s1.thrown THEN s1 ELSE [s1 EXCEPT !.currentTrackLevel = level]
    ELSE s

OldValueShutdown(s, v, F) ==
    IF v.isInitialized
    THEN LET s1 == SdkCall(s, "shutdown", Undefined, F)
         IN  IF s1.thrown THEN s1
             ELSE [s1 EXCEPT !.isInitialized = FALSE, !.initRef = FALSE]
    ELSE s

\* The passive effects of the older provider's first commit, and StrictMode's
\* cleanup and second run.
OldMountEffects(s, strict, F) ==
    LET s1 == OldProviderEffect(s, props, F)
    IN  IF strict THEN OldProviderEffect(OldRunDestroy(s1, F), props, F) ELSE s1

\* The passive effects of a commit of the older provider rendered with p.
OldCommit(s, p, F) ==
    IF OldDepsChanged(p, props) THEN OldProviderEffect(OldRunDestroy(s, F), p, F) ELSE s

OldMount(strict, F) ==
    /\ phase = "rendered"
    /\ Store(OldMountEffects(Heap, strict, F), IF strict THEN "mountStrict" ELSE "mount")
    /\ phase' = "mounted"
    /\ UNCHANGED <<props, value, held, cHook, cPhase, cArgs>>

OldRerender(F) ==
    /\ phase = "mounted"
    /\ Pending
    /\ value' = RenderValue(Heap, props)
    /\ Store(OldCommit(Heap, props, F), "rerender")
    /\ UNCHANGED <<props, phase, held, cHook, cPhase, cArgs>>

OldSetProps(p, F) ==
    /\ phase = "mounted"
    /\ props' = p
    /\ value' = RenderValue(Heap, p)
    /\ Store(OldCommit(Heap, p, F), "setProps")
    /\ UNCHANGED <<phase, held, cHook, cPhase, cArgs>>

OldUnmount(F) ==
    /\ phase = "mounted"
    /\ phase' = "unmounted"
    /\ Store(OldRunDestroy(Heap, F), "unmount")
    /\ UNCHANGED <<props, value, held, cHook, cPhase, cArgs>>

OldCallTrack(v, ev, F) ==
    /\ Store(OldValueTrack(Heap, v, ev, F), "track")
    /\ UNCHANGED <<props, phase, value, held, cHook, cPhase, cArgs>>

OldCallSetTrackLevel(v, level, F) ==
    /\ Store(OldValueSetTrackLevel(Heap, v, level, F), "setTrackLevel")
    /\ UNCHANGED <<props, phase, value, held, cHook, cPhase, cArgs>>

OldCallShutdown(v, F) ==
    /\ Store(OldValueShutdown(Heap, v, F), "shutdown")
    /\ UNCHANGED <<props, phase, value, held, cHook, cPhase, cArgs>>

\* ---------------------------------------------------------- specifications

\* The provider alone, with a host that calls through the context value of
\* the latest render or through one it kept.
Init == InitWith(CoreProps, {"none"}, {"absent"})

Next ==
    \/ \E strict \in BOOLEAN, F \in Faults({"init", "shutdown"}) : Mount(strict, F)
    \/ Rerender(cArgs, {})
    \/ \E p \in CoreProps, F \in Faults({"init", "shutdown"}) : SetProps(p, cArgs, F)
    \/ \E F \in Faults({"shutdown"}) : Unmount(TRUE, F)
    \/ Hold
    \/ \E v \in Callable, ev \in HostEvents, F \in Faults({"track"}) : CallTrack(v, ev, F)
    \/ \E v \in Callable, l \in HostLevels, F \in Faults({"setTrackLevel"}) :
            CallSetTrackLevel(v, l, F)
    \/ \E v \in Callable, F \in Faults({"shutdown"}) : CallShutdown(v, F)

Spec == Init /\ [][Next]_vars

\* The provider under every change of its props.
InitConfigs == InitWith(PropsSet, {"none"}, {"absent"})

NextConfigs ==
    \/ \E strict \in BOOLEAN, F \in Faults({"init", "shutdown"}) : Mount(strict, F)
    \/ Rerender(cArgs, {})
    \/ \E p \in PropsSet, F \in Faults({"init", "shutdown"}) : SetProps(p, cArgs, F)
    \/ \E F \in Faults({"shutdown"}) : Unmount(TRUE, F)
    \/ \E v \in Current, ev \in HostEvents, F \in Faults({"track"}) : CallTrack(v, ev, F)
    \/ \E v \in Current, F \in Faults({"shutdown"}) : CallShutdown(v, F)

SpecConfigs == InitConfigs /\ [][NextConfigs]_vars

\* The provider with a host that also flushes.
NextFlush ==
    \/ \E strict \in BOOLEAN, F \in Faults({"init", "shutdown"}) : Mount(strict, F)
    \/ Rerender(cArgs, {})
    \/ \E p \in CoreProps, F \in Faults({"init", "shutdown"}) : SetProps(p, cArgs, F)
    \/ \E F \in Faults({"shutdown"}) : Unmount(TRUE, F)
    \/ \E v \in Current, ev \in HostEvents, F \in Faults({"track"}) : CallTrack(v, ev, F)
    \/ \E v \in Current, l \in HostLevels, F \in Faults({"setTrackLevel"}) :
            CallSetTrackLevel(v, l, F)
    \/ \E v \in Current, F \in Faults({"shutdown"}) : CallShutdown(v, F)
    \/ \E v \in Current, F \in Faults({"flush"}) : CallFlush(v, F)
    \/ \E outcome \in {"resolved", "rejected"} : SettleFlush(outcome)
    \/ ResumeFlush

SpecFlush == Init /\ [][NextFlush]_vars

\* A provider whose host tracks, shuts down and flushes, the job queue
\* running every continuation in the end.
InitAwait == InitWith({BaseProps, [BaseProps EXCEPT !.debug = "true"]}, {"none"},
                      {"absent"})

NextAwait ==
    \/ \E strict \in BOOLEAN, F \in Faults({"init"}) : Mount(strict, F)
    \/ Rerender(cArgs, {})
    \/ Unmount(TRUE, {})
    \/ Hold
    \/ \E v \in Callable, ev \in HostEvents, F \in Faults({"track"}) : CallTrack(v, ev, F)
    \/ \E v \in Callable : CallShutdown(v, {})
    \/ \E v \in Callable, F \in Faults({"flush"}) : CallFlush(v, F)
    \/ \E outcome \in {"resolved", "rejected"} : SettleFlush(outcome)
    \/ ResumeFlush

FairAwait == InitAwait /\ [][NextAwait]_vars /\ WF_vars(ResumeFlush)

\* The provider with a consumer component that uses one of the hooks.
InitHooks == InitWith(HookProps, Hooks, {"absent", "rendered"})

NextHooks ==
    \/ \E strict \in BOOLEAN, F \in Faults({"init"}) : Mount(strict, F)
    \/ \E a \in HookArgs, F \in Faults({"track"}) : Rerender(a, F)
    \/ \E p \in HookProps, a \in HookArgs, F \in Faults({"init", "track"}) :
            SetProps(p, a, F)
    \/ \E providerFirst \in BOOLEAN : Unmount(providerFirst, {})
    \/ \E a \in HookArgs, F \in Faults({"track"}) : ChildMount(a, F)
    \/ \E a \in HookArgs, F \in Faults({"track"}) : ChildRerender(a, F)
    \/ ChildUnmount({})
    \/ \E v \in Current, l \in HostLevels : CallSetTrackLevel(v, l, {})
    \/ \E v \in Current : CallShutdown(v, {})

SpecHooks == InitHooks /\ [][NextHooks]_vars

\* The provider with a consumer component that uses one of the view hooks.
InitViews == InitWith(HookProps, ViewHooks, {"absent", "rendered"})

NextViews ==
    \/ \E strict \in BOOLEAN, F \in Faults({"init"}) : Mount(strict, F)
    \/ \E a \in ArgsOf(cHook), F \in Faults({"track"}) : Rerender(a, F)
    \/ \E p \in HookProps, a \in ArgsOf(cHook), F \in Faults({"init", "track"}) :
            SetProps(p, a, F)
    \/ \E providerFirst \in BOOLEAN : Unmount(providerFirst, {})
    \/ \E a \in ArgsOf(cHook), F \in Faults({"track"}) : ChildMount(a, F)
    \/ \E a \in ArgsOf(cHook), F \in Faults({"track"}) : ChildRerender(a, F)
    \/ ChildUnmount({})
    \/ \E v \in Current : CallShutdown(v, {})

SpecViews == InitViews /\ [][NextViews]_vars

\* The provider with a consumer component whose hook returns a function the
\* host calls, and a host that also tracks through the context.
InitForward == InitWith(HookProps, ForwardHooks, {"rendered"})

NextForward ==
    \/ \E strict \in BOOLEAN, F \in Faults({"init"}) : Mount(strict, F)
    \/ \E a \in ArgsOf(cHook) : Rerender(a, {})
    \/ \E p \in HookProps, a \in ArgsOf(cHook), F \in Faults({"init"}) : SetProps(p, a, F)
    \/ \E providerFirst \in BOOLEAN : Unmount(providerFirst, {})
    \/ \E a \in ArgsOf(cHook) : ChildRerender(a, {})
    \/ \E F \in Faults({"track"}) : Click(F)
    \/ \E F \in Faults({"track"}) : Submit(F)
    \/ \E a \in HookArgs, F \in Faults({"track"}) : TrackEvent(a, F)
    \/ \E v \in Current, ev \in HostEvents, F \in Faults({"track"}) : CallTrack(v, ev, F)
    \/ \E v \in Current : CallShutdown(v, {})

SpecForward == InitForward /\ [][NextForward]_vars

\* The provider, with or without debug, with a consumer that uses
\* useTrackEvent and a host that also tracks through the context.
InitDebug ==
    InitWith({BaseProps, [BaseProps EXCEPT !.debug = "true"]}, {"useTrackEvent"},
             {"rendered"})

NextDebug ==
    \/ \E strict \in BOOLEAN, F \in Faults({"init"}) : Mount(strict, F)
    \/ Rerender(cArgs, {})
    \/ \E p \in {BaseProps, [BaseProps EXCEPT !.debug = "true"]} : SetProps(p, cArgs, {})
    \/ Unmount(TRUE, {})
    \/ \E a \in HookArgs, F \in Faults({"track"}) : TrackEvent(a, F)
    \/ \E v \in Current, ev \in HostEvents, F \in Faults({"track"}) : CallTrack(v, ev, F)
    \/ \E v \in Current : CallShutdown(v, {})

SpecDebug == InitDebug /\ [][NextDebug]_vars

\* A consumer that uses useTrackEvent and a host that keeps the functions of
\* an earlier render and calls them later.
InitStale == InitWith(HookProps, {"useTrackEvent"}, {"rendered"})

NextStale ==
    \/ \E strict \in BOOLEAN, F \in Faults({"init"}) : Mount(strict, F)
    \/ Rerender(cArgs, {})
    \/ \E p \in HookProps, F \in Faults({"init"}) : SetProps(p, cArgs, F)
    \/ Unmount(TRUE, {})
    \/ Hold
    \/ \E a \in HookArgs, F \in Faults({"track"}) : TrackEvent(a, F)
    \/ \E a \in HookArgs, F \in Faults({"track"}) : HeldTrackEvent(a, F)
    \/ \E v \in Callable, ev \in HostEvents, F \in Faults({"track"}) : CallTrack(v, ev, F)
    \/ \E v \in Current : CallShutdown(v, {})

SpecStale == InitStale /\ [][NextStale]_vars

\* Two providers mounted at the same time over the one DashgramMini.
InitTwo == InitWith(HookProps, {"none"}, {"absent"})

NextTwo ==
    \/ \E F \in Faults({"init"}) : Mount(FALSE, F)
    \/ Rerender(cArgs, {})
    \/ Unmount(TRUE, {})
    \/ \E v \in Current, ev \in HostEvents, F \in Faults({"track"}) : CallTrack(v, ev, F)
    \/ \E v \in Current : CallShutdown(v, {})
    \/ \E F \in Faults({"init"}) : OtherMount(F)
    \/ OtherRerender
    \/ OtherUnmount({})
    \/ OtherShutdown({})

SpecTwo == InitTwo /\ [][NextTwo]_vars

\* The older provider alone.
InitOld == InitWith(OldProps, {"none"}, {"absent"})

NextOld ==
    \/ \E strict \in BOOLEAN, F \in Faults({"init"}) : OldMount(strict, F)
    \/ \E F \in Faults({"init"}) : OldRerender(F)
    \/ \E p \in OldProps, F \in Faults({"init"}) : OldSetProps(p, F)
    \/ OldUnmount({})
    \/ \E v \in Current, ev \in HostEvents, F \in Faults({"track"}) : OldCallTrack(v, ev, F)
    \/ \E v \in Current, l \in HostLevels : OldCallSetTrackLevel(v, l, {})
    \/ \E v \in Current : OldCallShutdown(v, {})

SpecOld == InitOld /\ [][NextOld]_vars

\* usePageView rendered with every kind of properties object.
PayloadArgs == [name : {"home", "about"}, properties : {Undefined, "props1", "propsPage"}]

InitPayload == InitWith({BaseProps}, {"usePageView"}, {"absent", "rendered"})

NextPayload ==
    \/ \E strict \in BOOLEAN, F \in Faults({"init"}) : Mount(strict, F)
    \/ \E a \in PayloadArgs, F \in Faults({"track"}) : Rerender(a, F)
    \/ Unmount(TRUE, {})
    \/ \E a \in PayloadArgs, F \in Faults({"track"}) : ChildMount(a, F)
    \/ \E a \in PayloadArgs, F \in Faults({"track"}) : ChildRerender(a, F)
    \/ ChildUnmount({})
    \/ \E v \in Current : CallShutdown(v, {})

SpecPayload == InitPayload /\ [][NextPayload]_vars

\* The provider under every change of its props, React rendering every
\* pending state update in the end.
FairConfigs == SpecConfigs /\ WF_vars(Rerender(cArgs, {}))

\* ------------------------------------------------------------------ claims

\* Whether a call of the latest step threw, and how many of its calls were op.
Threw == \E i \in 1..Len(step) : step[i].threw
CountOf(op) == Cardinality({i \in 1..Len(step) : step[i].op = op})

\* No state update is pending: the committed render shows the state.
Settled == ~Pending

\* A step after which isInitialized need not stay true: the props were
\* rendered anew, shutdown() was called, the provider unmounted or a call on
\* DashgramMini threw.
Interfered == last \in {"setProps", "shutdown", "unmount"} \/ Threw

\* The state and the committed render both say initialized.
Stable == isInitialized /\ value.isInitialized

\* The provider has just mounted once, with a project id, and init returned.
MountedOnce == last = "mount" /\ Truthy(props.projectId) /\ ~Threw

\* C1: a provider with a non-empty projectId that mounts once, init not
\* throwing, has called DashgramMini.init exactly once, with the eight props
\* as the config (trackLevel 2 when omitted); isInitialized becomes true in
\* the end and stays true over every step that renders no new props, calls
\* no shutdown, does not unmount and in which no call on DashgramMini throws.
C1_InitOnMount ==
    /\ [](MountedOnce =>
            /\ Len(step) = 1
            /\ step[1].op = "init"
            /\ step[1].arg.projectId = props.projectId
            /\ step[1].arg.trackLevel =
                  (IF props.trackLevel = NoNumber THEN 2 ELSE props.trackLevel)
            /\ step[1].arg.apiUrl = props.apiUrl
            /\ step[1].arg.batchSize = props.batchSize
            /\ step[1].arg.flushInterval = props.flushInterval
            /\ step[1].arg.debug = props.debug
            /\ step[1].arg.disabled = props.disabled
            /\ step[1].arg.onError = props.onError
            /\ isInitialized)
    /\ (MountedOnce ~> (Stable \/ Interfered))
    /\ [][Stable /\ props' = props /\ ~Interfered' => Stable']_vars

C1_Witness ==
    /\ last = "rerender" /\ Stable /\ props.trackLevel = NoNumber
    /\ sdk.config.trackLevel = 2 /\ sdk.config.projectId = "p1"

\* C2 as claimed: once the provider has unmounted, shutdown never having
\* thrown, the latest lifecycle call made on DashgramMini is shutdown if an
\* init ever succeeded.
C2_LastCallIsShutdown ==
    (last = "unmount" /\ sdk.initOk /\ ~sdk.shutdownThrew) => sdk.lastOp = "shutdown"

\* C2, amended: once the provider has unmounted, shutdown never having
\* thrown, the latest lifecycle call that did not throw is not init (the
\* client is not left initialized), and if no init ever succeeded the unmount
\* called shutdown zero times.
C2_ShutdownOnUnmount ==
    /\ (last = "unmount" /\ ~sdk.shutdownThrew) => ~sdk.ready
    /\ (last = "unmount" /\ ~sdk.initOk) => CountOf("shutdown") = 0

C2_Witness ==
    /\ last = "unmount" /\ sdk.initOk /\ ~sdk.shutdownThrew
    /\ CountOf("shutdown") = 1 /\ sdk.lastOp = "shutdown"

\* C3 as claimed: useTrackUnmount forwards nothing while its component stays
\* mounted.
C3_NothingWhileMounted ==
    (cHook = "useTrackUnmount" /\ cPhase = "mounted") => forwarded = <<>>

\* C4: useTrackMount forwards its event at most once per component instance,
\* and has forwarded it exactly once whenever the instance is mounted and the
\* committed render is initialized; what was forwarded stays forwarded.
C4_MountTrackedOnce ==
    /\ [](cHook = "useTrackMount" =>
            /\ Len(forwarded) <= 1
            /\ (cPhase = "mounted" /\ value.isInitialized) => Len(forwarded) = 1)
    /\ [][cHook = "useTrackMount" => Len(forwarded') >= Len(forwarded)]_vars

C4_Witness ==
    /\ cHook = "useTrackMount" /\ cPhase = "mounted" /\ last = "childRerender"
    /\ Len(forwarded) = 1 /\ hasTracked /\ ~value.isInitialized

\* How many of the first n forwarded events are the name with the suffix.
Forwarded(name, suffix, n) ==
    Cardinality({i \in 1..n : forwarded[i] = [name |-> name, suffix |-> suffix]})

\* C5 as claimed: every forwarded N_unmounted of useAutoTrack has a forwarded
\* N_mounted before it, and the N_unmounted events never outnumber the
\* N_mounted events.
C5_MountedBeforeUnmounted ==
    cHook = "useAutoTrack" =>
        \A n \in 1..Len(forwarded) :
            forwarded[n].suffix = "_unmounted" =>
                /\ Forwarded(forwarded[n].name, "_mounted", n) >= 1
                /\ Forwarded(forwarded[n].name, "_unmounted", n)
                       <= Forwarded(forwarded[n].name, "_mounted", n)

\* StrictMode has just run the provider's effect, its cleanup and the effect
\* again for one mount with a project id, no call throwing.
MountedStrict == last = "mountStrict" /\ Truthy(props.projectId) /\ ~Threw

\* C6: after StrictMode's effect, cleanup, effect for one mount the state
\* isInitialized is true and the latest lifecycle call on DashgramMini is a
\* successful init, and the provider settles initialized unless a later step
\* interferes.
C6_StrictModeInitialized ==
    /\ [](MountedStrict =>
            isInitialized /\ initRef /\ sdk.lastOp = "init" /\ sdk.ready)
    /\ (MountedStrict ~> ((Settled /\ Stable /\ sdk.ready) \/ Interfered))

C6_Witness ==
    /\ MountedStrict /\ CountOf("init") = 2 /\ CountOf("shutdown") = 1
    /\ isInitialized /\ initRef /\ sdk.lastOp = "init" /\ sdk.ready

\* C7 as claimed: StrictMode's effect, cleanup, effect for one mount calls
\* DashgramMini.init exactly once.
C7_InitOnceUnderStrictMode == MountedStrict => CountOf("init") = 1

\* The provider was never initialized and nothing says otherwise.
Untouched ==
    /\ ~initRef /\ ~isInitialized /\ ~value.isInitialized /\ ~held.isInitialized
    /\ sdk = SdkFresh /\ ~escaped

\* C8: a provider whose projectId is missing or empty from its mount on stays
\* untouched over every step that leaves the projectId missing or empty: no
\* call is made on DashgramMini (no init, no track forwarded, no shutdown at
\* the unmount), isInitialized stays false and nothing throws.
C8_NoProjectId ==
    /\ (~Truthy(props.projectId) => Untouched)
    /\ [][(Untouched /\ ~Truthy(props.projectId) /\ ~Truthy(props'.projectId))
             => (Untouched' /\ step' = <<>>)]_vars

C8_Witness ==
    /\ last = "unmount" /\ ~Truthy(props.projectId) /\ Untouched
    /\ props.debug = "true"

\* C9: a track call through a context value whose isInitialized is false
\* calls nothing on DashgramMini, changes no state of the provider, and warns
\* once if the debug of that value's render is truthy and not at all
\* otherwise; no step but a track call has DashgramMini.track called.
C9_DroppedWhenNotInitialized ==
    /\ [][\A v \in Callable, ev \in HostEvents, F \in Faults({"track"}) :
            (~v.isInitialized /\ CallTrack(v, ev, F)) =>
                /\ step' = <<>>
                /\ sdk' = sdk
                /\ warns' = (IF Truthy(v.debug) THEN 1 ELSE 0)
                /\ isInitialized' = isInitialized]_vars
    /\ [](CountOf("track") > 0 => last = "track")

C9_Witness ==
    /\ last = "track" /\ step = <<>> /\ warns = 1 /\ held = NoValue
    /\ ~value.isInitialized /\ Truthy(value.debug) /\ sdk.ready

\* C10: no exception of DashgramMini leaves the provider's effect, its
\* cleanup or a function of the context value, and the promise of the
\* context flush() is never rejected.
C10_NothingEscapes == ~escaped /\ flush.ctx # "rejected"

C10_Witness ==
    /\ last = "resumeFlush" /\ flush.sdk = "rejected" /\ flush.ctx = "resolved"
    /\ warns = 1

\* How many of the calls st were DashgramMini.track calls with the event name.
TracksOf(st, name) ==
    Cardinality({i \in 1..Len(st) : st[i].op = "track" /\ st[i].arg.name = name})

\* A step that committed a render of the consumer, which stayed mounted.
Recommitted ==
    /\ cPhase = "mounted" /\ cPhase' = "mounted"
    /\ last' \in {"rerender", "setProps", "childRerender"}

\* C11 as claimed: a mounted usePageView whose committed render is
\* initialized has forwarded a page_view (the first one, for whatever page
\* name, the empty string included), and a committed render after an
\* initialized one forwards one page_view when the page name differs from
\* that of the render before it and none otherwise.
C11_PageViewPerChange ==
    /\ []((cHook = "usePageView" /\ cPhase = "mounted" /\ value.isInitialized)
            => forwarded # <<>>)
    /\ [][(cHook = "usePageView" /\ Recommitted /\ value.isInitialized
             /\ value'.isInitialized)
            => TracksOf(step', "page_view") =
                   (IF cArgs'.name # cArgs.name THEN 1 ELSE 0)]_vars

\* A step in which the effect of the mounted consumer's hook ran, with the
\* context value of an initialized render: its mount, a render of the
\* provider (a new track function) or a render with new arguments.
EffectRanInitialized ==
    /\ cPhase' = "mounted"
    /\ \/ last' \in {"mount", "mountStrict", "childMount", "rerender", "setProps"}
       \/ last' = "childRerender" /\ cArgs' # cArgs
    /\ value'.isInitialized

\* C12: with useLocation available, a step forwards one screen_view, which
\* carries path, search, hash and state of the current location, exactly when
\* the hook's effect ran in an initialized render and the pathname differs
\* from that of the last forwarded screen_view (previousPath, which changes
\* only with a forwarded screen_view; initially none), and no screen_view
\* otherwise: not for a change of search, hash or state alone, and not while
\* isInitialized is false; whenever the committed render is initialized the
\* current pathname is the last one forwarded.
C12_ScreenViewPerPathname ==
    /\ [][(cHook = "useScreenTracking" /\ useLocation) =>
            /\ TracksOf(step', "screen_view") =
                   (IF EffectRanInitialized /\ cArgs'.pathname # previousPath
                    THEN 1 ELSE 0)
            /\ TracksOf(step', "screen_view") = 1 =>
                   /\ \E i \in 1..Len(step') :
                          /\ step'[i].op = "track"
                          /\ step'[i].arg.name = "screen_view"
                          /\ step'[i].arg.properties =
                                 [path |-> cArgs'.pathname, search |-> cArgs'.search,
                                  hash |-> cArgs'.hash, state |-> cArgs'.state]
                   /\ previousPath' = cArgs'.pathname
            /\ TracksOf(step', "screen_view") = 0 => previousPath' = previousPath]_vars
    /\ []((cHook = "useScreenTracking" /\ useLocation /\ cPhase = "mounted"
             /\ value.isInitialized)
            => (previousPath = cArgs.pathname /\ forwarded # <<>>))

C12_Witness ==
    /\ cHook = "useScreenTracking" /\ useLocation /\ cPhase = "mounted"
    /\ last = "childRerender" /\ step = <<>> /\ cArgs.search = "?q=1"
    /\ Len(forwarded) = 2 /\ previousPath = "/about" /\ value.isInitialized

\* C13: a context setTrackLevel(level) call through an initialized context
\* value makes exactly one call on DashgramMini, setTrackLevel(level), and
\* leaves isInitialized and initRef as they were; through a context value
\* that is not initialized it calls nothing and leaves the level
\* getTrackLevel() returns unchanged; and the re-render of a state update
\* calls neither init nor shutdown.
C13_SetTrackLevelNoReinit ==
    /\ [][\A v \in Callable, l \in HostLevels, F \in Faults({"setTrackLevel"}) :
            CallSetTrackLevel(v, l, F) =>
                IF v.isInitialized
                THEN /\ step' = <<[op |-> "setTrackLevel", arg |-> l,
                                   threw |-> "setTrackLevel" \in F]>>
                     /\ isInitialized' = isInitialized
                     /\ initRef' = initRef
                ELSE /\ step' = <<>>
                     /\ sdk' = sdk
                     /\ currentTrackLevel' = currentTrackLevel
                     /\ ValueGetTrackLevel(value') = ValueGetTrackLevel(value)]_vars
    /\ [](last = "rerender" => (CountOf("init") = 0 /\ CountOf("shutdown") = 0))

C13_Witness ==
    /\ last = "rerender" /\ step = <<>> /\ Stable /\ sdk.ready /\ sdk.shutdowns = 0
    /\ ValueGetTrackLevel(value) = 3 /\ sdk.level = 3 /\ sdk.config.trackLevel = 2

\* C14 as claimed: in every settled state of a mounted, initialized provider
\* whose client is initialized, getTrackLevel() of the committed context
\* value returns the level most recently given to DashgramMini, by the
\* config of the latest init or by the latest successful setTrackLevel.
C14_GetTrackLevelCurrent ==
    (phase = "mounted" /\ Settled /\ Stable /\ sdk.ready)
        => ValueGetTrackLevel(value) = sdk.level

\* The step rendered the provider with a new value of one of the seven props
\* projectId, trackLevel (2 when omitted), apiUrl, batchSize, flushInterval,
\* debug, disabled.
ConfigChanged ==
    \/ \E f \in {"projectId", "apiUrl", "batchSize", "flushInterval", "debug",
                 "disabled"} : props'[f] # props[f]
    \/ (IF props'.trackLevel = NoNumber THEN 2 ELSE props'.trackLevel)
           # (IF props.trackLevel = NoNumber THEN 2 ELSE props.trackLevel)

\* C15: a render of an initialized provider with a new value of one of the
\* seven props, the projectId staying non-empty and no call throwing, calls
\* DashgramMini.shutdown once and then DashgramMini.init once, with the new
\* props as config, and nothing else; the update is settled with
\* isInitialized true.
C15_ReinitOnConfigChange ==
    [][(last' = "setProps" /\ isInitialized /\ ConfigChanged
          /\ Truthy(props'.projectId) /\ ~Threw')
         => /\ step' =
                 <<[op |-> "shutdown", arg |-> Undefined, threw |-> FALSE],
                   [op |-> "init", threw |-> FALSE,
                    arg |-> [projectId |-> props'.projectId,
                             trackLevel |-> (IF props'.trackLevel = NoNumber
                                             THEN 2 ELSE props'.trackLevel),
                             apiUrl |-> props'.apiUrl,
                             batchSize |-> props'.batchSize,
                             flushInterval |-> props'.flushInterval,
                             debug |-> props'.debug,
                             disabled |-> props'.disabled,
                             onError |-> props'.onError]]>>
            /\ isInitialized' /\ value'.isInitialized /\ ~Pending']_vars

C15_Witness ==
    /\ last = "setProps" /\ Len(step) = 2 /\ ~Threw /\ Settled /\ Stable
    /\ step[1].op = "shutdown" /\ step[2].op = "init"
    /\ sdk.config.debug = "true" /\ props.debug = "true"

\* The provider is mounted, settled and initialized, and so is the client.
SettledInitialized == phase = "mounted" /\ Settled /\ Stable /\ sdk.ready

\* C16 as claimed: in every settled state of an initialized provider each of
\* the eight fields of the config of the latest DashgramMini.init equals the
\* current prop of that name (trackLevel 2 when omitted).
C16_ConfigIsCurrent ==
    SettledInitialized =>
        /\ \A f \in {"projectId", "apiUrl", "batchSize", "flushInterval", "debug",
                     "disabled", "onError"} : sdk.config[f] = props[f]
        /\ sdk.config.trackLevel =
               (IF props.trackLevel = NoNumber THEN 2 ELSE props.trackLevel)

\* C16, amended: in every settled state of an initialized provider each of
\* the seven fields projectId, trackLevel, apiUrl, batchSize, flushInterval,
\* debug, disabled of the config of the latest DashgramMini.init equals the
\* current prop of that name (trackLevel 2 when omitted); a render that
\* changes none of the seven props, a change of onError alone included, makes
\* no call on DashgramMini, so onError stays the prop of the render whose
\* effect made the latest init call.
C16_ConfigIsCurrentButOnError ==
    /\ [](SettledInitialized =>
            /\ \A f \in {"projectId", "apiUrl", "batchSize", "flushInterval",
                         "debug", "disabled"} : sdk.config[f] = props[f]
            /\ sdk.config.trackLevel =
                   (IF props.trackLevel = NoNumber THEN 2 ELSE props.trackLevel))
    /\ [][(last' = "setProps" /\ ~ConfigChanged) => (step' = <<>> /\ sdk' = sdk)]_vars

C16_Witness ==
    /\ SettledInitialized /\ last = "setProps" /\ step = <<>>
    /\ props.onError = "onError1" /\ sdk.config.onError = Undefined

\* C17 as claimed: a re-render of the provider with the same props,
\* isInitialized and currentTrackLevel, the mounted consumer rendering with
\* the same arguments, hands the consumer the same track function, so none of
\* the consumer's effects or cleanups runs and nothing is called on
\* DashgramMini.
C17_ValueMemoized ==
    [][(last' = "setProps" /\ cPhase = "mounted" /\ props' = props
          /\ cArgs' = cArgs /\ value' = value)
         => (step' = <<>> /\ forwarded' = forwarded)]_vars

\* C18 as claimed, for a provider whose projectId is non-empty: after an init
\* succeeded, no shutdown having thrown, DashgramMini.shutdown has been
\* called at most once since the latest DashgramMini.init.
C18_ShutdownAtMostOnce ==
    (Truthy(props.projectId) /\ sdk.initOk /\ ~sdk.shutdownThrew)
        => sdk.shutdowns <= 1

\* C19: the promise of a context flush() through an initialized context
\* value, which calls DashgramMini.flush once, is settled only when the
\* promise DashgramMini.flush() returned is, and is settled in the end once
\* that promise is; through a context value that is not initialized
\* flush() calls nothing and its promise resolves.
C19_FlushAwaitsSdk ==
    /\ []((flush.ctx \in {"resolved", "rejected"}) => flush.sdk # "pending")
    /\ ((flush.ctx = "pending" /\ flush.sdk \in {"resolved", "rejected"})
           ~> flush.ctx \in {"resolved", "rejected"})
    /\ [][\A v \in Callable, F \in Faults({"flush"}) :
            CallFlush(v, F) =>
                IF v.isInitialized
                THEN /\ step' = <<[op |-> "flush", arg |-> Undefined,
                                   threw |-> "flush" \in F]>>
                     /\ "flush" \notin F => flush'.ctx = "pending"
                ELSE step' = <<>> /\ flush'.ctx = "resolved"]_vars

C19_Witness ==
    /\ last = "resumeFlush" /\ flush.ctx = "resolved" /\ flush.sdk = "resolved"
    /\ step = <<>> /\ warns = 0

\* The call on DashgramMini.track with the event name and the properties.
TrackCall(name, properties, threw) ==
    [op |-> "track", threw |-> threw,
     arg |-> [name |-> name, suffix |-> "", properties |-> properties]]

\* C20: while the committed context value is initialized, each call of the
\* handler useTrackClick or useTrackSubmit returned, of the function
\* useTrackEvent returned and of the context track makes exactly one
\* DashgramMini.track call within the call, with the same event name and
\* properties, and the events the hooks forwarded stay in the order of the
\* calls; no other step calls DashgramMini.track.
C20_ForwardedOneToOne ==
    /\ [][\A F \in Faults({"track"}) :
            /\ (value.isInitialized /\ (Click(F) \/ Submit(F))) =>
                  /\ step' = <<TrackCall(cArgs.name, cArgs.properties, "track" \in F)>>
                  /\ forwarded' = Append(forwarded, [name |-> cArgs.name, suffix |-> ""])
            /\ \A a \in HookArgs :
                  (value.isInitialized /\ TrackEvent(a, F)) =>
                      /\ step' = <<TrackCall(a.name, a.properties, "track" \in F)>>
                      /\ forwarded' = Append(forwarded, [name |-> a.name, suffix |-> ""])
            /\ \A v \in Current, ev \in HostEvents :
                  (v.isInitialized /\ CallTrack(v, ev, F)) =>
                      /\ step' = <<TrackCall(ev.name, ev.properties, "track" \in F)>>
                      /\ forwarded' = forwarded]_vars
    /\ [](CountOf("track") > 0 => last \in {"click", "submit", "trackEvent", "track"})

C20_Witness ==
    /\ cHook = "useTrackEvent" /\ last = "trackEvent" /\ ~Threw
    /\ forwarded = <<[name |-> "A", suffix |-> ""], [name |-> "B", suffix |-> ""],
                     [name |-> "A", suffix |-> ""]>>
    /\ step = <<TrackCall("A", "props1", FALSE)>>

\* C21 as claimed: with a truthy debug prop, an event given to the context
\* track or to the function useTrackEvent returned while the committed
\* context value is not initialized, which is dropped, is reported by a
\* console warning.
C21_DroppedIsReported ==
    [][\A F \in Faults({"track"}) :
          /\ \A a \in HookArgs :
                (Truthy(value.debug) /\ ~value.isInitialized /\ TrackEvent(a, F))
                    => (step' = <<>> /\ warns' >= 1)
          /\ \A v \in Current, ev \in HostEvents :
                (Truthy(v.debug) /\ ~v.isInitialized /\ CallTrack(v, ev, F))
                    => (step' = <<>> /\ warns' >= 1)]_vars

\* The latest call of the calls st is a DashgramMini.init that threw.
InitThrewIn(st) == Len(st) > 0 /\ st[Len(st)].op = "init" /\ st[Len(st)].threw

\* The latest lifecycle call on DashgramMini is an init that threw and left
\* the provider uninitialized (an init that returned sets initRef, which only
\* a later shutdown call or a cleanup resets).
InitFailed == phase = "mounted" /\ sdk.lastOp = "init" /\ ~initRef

\* C22: a step whose DashgramMini.init throws leaves isInitialized false
\* (initRef too); while that failed init is the latest lifecycle call no
\* render, prop change or unmount calls DashgramMini.shutdown; and the next
\* render with a new value of one of the seven props, the projectId being
\* non-empty, calls DashgramMini.init again with the new props and nothing
\* else, after which isInitialized is true if the call returned.
C22_InitErrorRetryable ==
    /\ [][InitThrewIn(step') => (~isInitialized' /\ ~initRef' /\ InitFailed')]_vars
    /\ [][(InitFailed /\ last' \in {"rerender", "setProps", "unmount"})
            => CountOf("shutdown")' = 0]_vars
    /\ [][(InitFailed /\ last' = "setProps" /\ ConfigChanged
             /\ Truthy(props'.projectId))
            => /\ Len(step') = 1
               /\ step'[1].op = "init"
               /\ step'[1].arg.projectId = props'.projectId
               /\ step'[1].arg.debug = props'.debug
               /\ step'[1].arg.apiUrl = props'.apiUrl
               /\ isInitialized' = ~step'[1].threw]_vars

C22_Witness ==
    /\ last = "unmount" /\ step = <<>> /\ sdk.lastOp = "init" /\ ~sdk.initOk
    /\ props.projectId = "p2" /\ sdk.config.projectId = "p2"

\* Whether the client is initialized when the i-th call of the calls st is
\* made, the client having been initialized or not (ready) before them: the
\* latest lifecycle call before it that returned is an init.
ReadyAt(st, i, ready) ==
    LET done == {j \in 1..(i - 1) : st[j].op \in {"init", "shutdown"} /\ ~st[j].threw}
    IN  IF done = {} THEN ready
        ELSE st[CHOOSE j \in done : \A k \in done : k <= j].op = "init"

\* C23 as claimed, for a provider whose projectId is non-empty and whose
\* latest lifecycle call is a shutdown: every DashgramMini.track call is made
\* while the client is initialized, so none between that shutdown and the
\* next init that returned.
C23_TrackOnlyWhileInitialized ==
    [][(Truthy(props.projectId) /\ sdk.lastOp = "shutdown")
         => \A i \in 1..Len(step') :
                step'[i].op = "track" => ReadyAt(step', i, sdk.ready)]_vars

\* C24 as claimed: when an initialized provider unmounts together with a
\* mounted consumer that uses useTrackUnmount or useAutoTrack, the consumer's
\* unmount event is given to DashgramMini.track before the provider's cleanup
\* calls DashgramMini.shutdown, in whichever order React runs the cleanups.
C24_UnmountEventBeforeShutdown ==
    [][(last' = "unmount" /\ cPhase = "mounted"
          /\ cHook \in {"useTrackUnmount", "useAutoTrack"}
          /\ value.isInitialized /\ isInitialized /\ initRef /\ sdk.ready)
         => \E i, j \in 1..Len(step') :
                /\ i < j
                /\ step'[i].op = "track"
                /\ step'[j].op = "shutdown"]_vars

\* C25: in every settled state of a mounted provider, isInitialized = true
\* implies that the latest lifecycle call on DashgramMini that returned is
\* init and not shutdown.
C25_InitializedImpliesReady ==
    (phase = "mounted" /\ Settled /\ isInitialized) => sdk.ready

\* A context shutdown() whose DashgramMini.shutdown threw: the provider still
\* says initialized, and the client still is.
C25_Witness ==
    /\ phase = "mounted" /\ Settled /\ isInitialized
    /\ last = "shutdown" /\ CountOf("shutdown") = 1 /\ Threw
    /\ sdk.ready

\* The i-th call of the calls st, made on the client m, has a lifecycle call
\* before it, and the nearest one is a shutdown or an init that threw; without
\* one in st the client m decides, as far as it tells (after a shutdown
\* that threw it does not tell whether its latest init returned).
AfterShutdownOrFailure(st, i, m) ==
    LET before == {j \in 1..(i - 1) : st[j].op \in {"init", "shutdown"}}
    IN  IF before = {}
        THEN m.lastOp # "init" \/ ~m.ready \/ m.shutdownThrew
        ELSE LET j == CHOOSE k \in before : \A n \in before : n <= k
             IN  st[j].op = "shutdown" \/ st[j].threw

\* C27: the provider never calls DashgramMini.init on a client its previous
\* init initialized: the lifecycle call before every init is a shutdown or an
\* init that threw (or there is none).
C27_NoInitOnInitialized ==
    [][\A i \in 1..Len(step') :
          step'[i].op = "init" => AfterShutdownOrFailure(step', i, sdk)]_vars

\* A prop change re-initialized a provider that had been initialized before
\* and shut down by an earlier step: the step's only call is init.
C27_Witness ==
    /\ last = "setProps" /\ held.isInitialized
    /\ Len(step) = 1 /\ step[1].op = "init" /\ ~step[1].threw
    /\ sdk.initOk /\ ~sdk.shutdownThrew

\* The provider after a context track() whose DashgramMini.track threw, once
\* the next render is committed: initRef.current still true, isInitialized
\* false in the state and in the context value, the client still initialized.
Degraded ==
    /\ phase = "mounted" /\ initRef /\ sdk.ready
    /\ ~isInitialized /\ ~value.isInitialized

\* C28: a context track() whose DashgramMini.track throws sets isInitialized
\* false and leaves initRef.current alone; from the next committed render on,
\* context track, flush, setTrackLevel and shutdown call nothing on
\* DashgramMini, and re-renders with unchanged dependency props keep it so; a
\* change of a dependency prop starts with the cleanup's shutdown call, and
\* unmounting calls DashgramMini.shutdown exactly once.
C28_TrackErrorDegrades ==
    /\ [][(last' = "track" /\ step' # <<>> /\ step'[1].threw)
            => (~isInitialized' /\ initRef' = initRef)]_vars
    /\ [][(Degraded /\ last' \in {"track", "flush", "setTrackLevel", "shutdown"})
            => (step' = <<>> /\ initRef' /\ ~isInitialized')]_vars
    /\ [][(Degraded /\ (last' = "rerender" \/ (last' = "setProps" /\ ~ConfigChanged)))
            => (step' = <<>> /\ Degraded')]_vars
    /\ [][(Degraded /\ last' = "setProps" /\ ConfigChanged)
            => (step' # <<>> /\ step'[1].op = "shutdown")]_vars
    /\ [][(Degraded /\ last' = "unmount")
            => (Len(step') = 1 /\ step'[1].op = "shutdown" /\ ~initRef')]_vars

\* The render after the throwing track call is committed.
C28_Witness == last = "rerender" /\ Degraded /\ sdk.lastOp = "init"

\* The provider after a context shutdown() whose DashgramMini.shutdown
\* returned: initRef.current and isInitialized false, the shutdown the latest
\* lifecycle call, projectId non-empty.
ShutDown ==
    /\ phase = "mounted" /\ Truthy(props.projectId)
    /\ ~initRef /\ ~isInitialized
    /\ sdk.lastOp = "shutdown" /\ ~sdk.ready

\* C29: a context shutdown() that succeeded leaves the provider uninitialized;
\* re-renders and prop changes that leave the dependency props alone call
\* nothing on DashgramMini and keep it so; the next change of a dependency
\* prop (projectId non-empty) makes exactly one call, DashgramMini.init with
\* the new props, without a second shutdown, and isInitialized is true
\* afterwards exactly if it returned.
C29_ShutdownUntilPropChange ==
    /\ [][(last' = "shutdown" /\ step' # <<>> /\ ~step'[1].threw)
            => (~isInitialized' /\ ~initRef' /\ (Truthy(props.projectId) => ShutDown'))]_vars
    /\ [][(ShutDown /\ (last' = "rerender" \/ (last' = "setProps" /\ ~ConfigChanged)))
            => (step' = <<>> /\ ShutDown')]_vars
    /\ [][(ShutDown /\ last' = "setProps" /\ ConfigChanged /\ Truthy(props'.projectId))
            => /\ Len(step') = 1
               /\ step'[1].op = "init"
               /\ step'[1].arg = InitConfig(props')
               /\ isInitialized' = ~step'[1].threw]_vars

\* The render after a context shutdown() that succeeded is committed: the
\* provider and its context value say uninitialized, no init was called.
C29_Witness == last = "rerender" /\ ShutDown /\ ~value.isInitialized /\ sdk.initOk

\* The latest step called DashgramMini.track, once, with the event ev.
ForwardedOnly(st, name, properties) ==
    /\ Len(st) = 1
    /\ st[1].op = "track"
    /\ st[1].arg.name = name
    /\ st[1].arg.properties = properties

\* C30: a call of the function useTrackEvent returned, and of context track,
\* calls DashgramMini.track exactly if isInitialized was true in the render
\* the function comes from, whatever the provider's state at the time of the
\* call: a function of an uninitialized render forwards nothing also after
\* the initialization, one of an initialized render forwards also after a
\* shutdown.
C30_DecidedAtRender ==
    [][\A F \in Faults({"track"}) :
          /\ \A a \in HookArgs :
                /\ HeldTrackEvent(a, F)
                      => IF held.isInitialized
                         THEN ForwardedOnly(step', a.name, a.properties)
                         ELSE step' = <<>>
                /\ TrackEvent(a, F)
                      => IF value.isInitialized
                         THEN ForwardedOnly(step', a.name, a.properties)
                         ELSE step' = <<>>
          /\ \A v \in Callable, ev \in HostEvents :
                CallTrack(v, ev, F)
                   => IF v.isInitialized
                      THEN ForwardedOnly(step', ev.name, ev.properties)
                      ELSE step' = <<>>]_vars

\* The function of a render in which isInitialized was true was called after
\* a shutdown, before any further init, and called DashgramMini.track.
C30_Witness ==
    /\ last = "heldTrackEvent" /\ held.isInitialized
    /\ ~isInitialized /\ ~value.isInitialized
    /\ sdk.lastOp = "shutdown" /\ ~sdk.ready
    /\ Len(step) = 1 /\ step[1].op = "track"

\* C26 as claimed: with two providers over the one DashgramMini, in no settled
\* state does a mounted provider have isInitialized = true while the latest
\* lifecycle call on DashgramMini is a shutdown (made by the unmount or the
\* context shutdown() of the other one).
C26_OneInitialization ==
    (/\ sdk.lastOp = "shutdown"
     /\ Settled /\ other.isInitialized = other.value)
      => /\ ~(phase = "mounted" /\ isInitialized)
         /\ ~(other.phase = "mounted" /\ other.isInitialized)

\* C31 as claimed, for the older provider: in every settled state of the
\* mounted provider, isInitialized = true implies that the most recent
\* lifecycle call on DashgramMini is an init that returned, and not a
\* shutdown, also after StrictMode's effect, cleanup, effect and after a
\* change of a dependency prop.
C31_OldInitializedImpliesReady ==
    (phase = "mounted" /\ Settled /\ isInitialized)
        => (sdk.lastOp = "init" /\ sdk.ready)

\* C32 as claimed: the page field of every page_view payload given to
\* DashgramMini.track by usePageView(pageName, properties) equals the
\* pageName of the render whose effect tracked it, for every properties
\* object, one with its own page key included.
C32_PageIsPageName ==
    [][\A i \in 1..Len(step') :
          (step'[i].op = "track" /\ step'[i].arg.name = "page_view")
              => step'[i].arg.properties.page = cArgs'.name]_vars

====
